---------------------------- MODULE Spec2Model ----------------------------
(***************************************************************************)
(* Model of the gene-list matcher (src/gene_lists.py, src/gene_compare.py).*)
(*                                                                         *)
(* A Python str is a sequence of one-character strings, so that strip,     *)
(* upper, lower, split, the regular expressions and "; ".join are computed *)
(* character by character.  A pandas cell is either such a text or the     *)
(* missing value NaN.  A DataFrame is a record [columns, rows]: the ordered*)
(* column names and the rows, each row a function from column name to cell.*)
(***************************************************************************)
EXTENDS Integers, Sequences, FiniteSets, TLC

VARIABLES
    pc,                         \* position in one run of main()
    choice,                     \* st.sidebar.selectbox
    genes_list_1, genes_list_2, \* the two st.text_area values
    matching_genes,             \* result of find_matching_genes
    report,                     \* the st.success / st.warning / st.error / st.info shown
    saids_file, immune_file,    \* content of the two master CSV files on disk
    said_gene_to_disease, said_gene_to_inheritance,
    immune_gene_to_disease, immune_gene_to_inheritance,
    uploaded,                   \* <<large_df>> as read from the uploaded file, <<>> before
    large_df,                   \* large_df as the run mutates it
    gene_column,                \* the gene column in use, or None
    download                    \* <<table>> offered by st.download_button, <<>> if none

vars == <<pc, choice, genes_list_1, genes_list_2, matching_genes, report,
          saids_file, immune_file,
          said_gene_to_disease, said_gene_to_inheritance,
          immune_gene_to_disease, immune_gene_to_inheritance,
          uploaded, large_df, gene_column, download>>

textVars == <<genes_list_1, genes_list_2, matching_genes>>
indexVars == <<said_gene_to_disease, said_gene_to_inheritance,
               immune_gene_to_disease, immune_gene_to_inheritance>>
fileVars == <<saids_file, immune_file>>
tableVars == <<uploaded, large_df, gene_column, download>>

-----------------------------------------------------------------------------
(* Characters and Python's str methods *)

\* Python's None, where a column name or a message is expected
None == "None"

\* pandas' missing value (float NaN) in a cell
NaN == <<"NaN">>

\* the characters the model's texts are written in
Letters == {"A", "D", "N", "R", "a", "d", "n", "r"}
Spaces == {" ", "\n"}
Digits == {"1", "2"}

\* ord(c): the code point, which orders str comparison
Ord(c) ==
    CASE c = "\n" -> 10 [] c = " " -> 32 [] c = "-" -> 45 [] c = "." -> 46
      [] c = "1" -> 49 [] c = "2" -> 50 [] c = ";" -> 59 [] c = "?" -> 63
      [] c = "A" -> 65 [] c = "D" -> 68 [] c = "N" -> 78 [] c = "R" -> 82
      [] c = "_" -> 95
      [] c = "a" -> 97 [] c = "d" -> 100 [] c = "n" -> 110 [] c = "r" -> 114

\* str.upper() on one character
UpperChar(c) ==
    CASE c = "a" -> "A" [] c = "d" -> "D" [] c = "n" -> "N" [] c = "r" -> "R"
      [] OTHER -> c

\* str.lower() on one character
LowerChar(c) ==
    CASE c = "A" -> "a" [] c = "D" -> "d" [] c = "N" -> "n" [] c = "R" -> "r"
      [] OTHER -> c

\* str.upper()
Upper(s) == [i \in 1..Len(s) |-> UpperChar(s[i])]

\* str.lower()
Lower(s) == [i \in 1..Len(s) |-> LowerChar(s[i])]

\* str.strip(): drop leading and trailing whitespace
RECURSIVE LStrip(_)
LStrip(s) ==
    IF s # <<>> /\ Head(s) \in Spaces THEN LStrip(Tail(s)) ELSE s

RECURSIVE RStrip(_)
RStrip(s) ==
    IF s # <<>> /\ s[Len(s)] \in Spaces THEN RStrip(SubSeq(s, 1, Len(s) - 1)) ELSE s

Strip(s) == RStrip(LStrip(s))

\* length of the leading run of non-whitespace characters
RECURSIVE WordLen(_)
WordLen(s) ==
    IF s = <<>> \/ Head(s) \in Spaces THEN 0 ELSE 1 + WordLen(Tail(s))

\* str.split() with no argument: the maximal runs of non-whitespace, in order
RECURSIVE Split(_)
Split(s) ==
    IF s = <<>> THEN <<>>
    ELSE IF Head(s) \in Spaces THEN Split(Tail(s))
    ELSE <<SubSeq(s, 1, WordLen(s))>> \o Split(SubSeq(s, WordLen(s) + 1, Len(s)))

\* the set of the elements of a sequence
Range(seq) == {seq[i] : i \in DOMAIN seq}

\* s < t for two str (lexicographic by code point)
RECURSIVE StrLess(_, _)
StrLess(s, t) ==
    IF t = <<>> THEN FALSE
    ELSE IF s = <<>> THEN TRUE
    ELSE IF Head(s) # Head(t) THEN Ord(Head(s)) < Ord(Head(t))
    ELSE StrLess(Tail(s), Tail(t))

\* sorted(S) for a set of str
RECURSIVE Sorted(_)
Sorted(S) ==
    IF S = {} THEN <<>>
    ELSE LET m == CHOOSE x \in S : \A y \in S \ {x} : StrLess(x, y)
         IN <<m>> \o Sorted(S \ {m})

\* sep.join(seq)
RECURSIVE Join(_, _)
Join(sep, seq) ==
    IF seq = <<>> THEN <<>>
    ELSE IF Len(seq) = 1 THEN seq[1]
    ELSE seq[1] \o sep \o Join(sep, Tail(seq))


\* str(x) of a cell: NaN prints as "nan"
Str(x) == IF x = NaN THEN <<"n", "a", "n">> ELSE x

-----------------------------------------------------------------------------
(* Helper functions of gene_lists.py *)

\* find_matching_genes with the second list compared as typed (lower() dropped)
find_matching_genes_cased(list1, list2) ==
    LET set1 == {Lower(Split(list1)[i]) : i \in DOMAIN Split(list1)}
        set2 == {Split(list2)[i] : i \in DOMAIN Split(list2)}
    IN set1 \cap set2

\* find_matching_genes(list1, list2)
find_matching_genes(list1, list2) ==
    LET set1 == {Lower(Split(list1)[i]) : i \in DOMAIN Split(list1)}
        set2 == {Lower(Split(list2)[i]) : i \in DOMAIN Split(list2)}
    IN set1 \cap set2

\* normalize_key(x)
normalize_key(x) == Upper(Strip(Str(x)))

\* re.compile(r"^[A-Za-z0-9_.-]+$") matched against a whole stripped value
MatchesPattern(v) ==
    /\ v # <<>>
    /\ \A i \in DOMAIN v : v[i] \in Letters \cup Digits \cup {"_", ".", "-"}

\* series.str.contains("[A-Za-z]")
ContainsLetter(v) == \E i \in DOMAIN v : v[i] \in Letters

\* df[col].astype(str).str.strip()
StrippedSeries(df, col) == [i \in 1..Len(df.rows) |-> Strip(Str(df.rows[i][col]))]

\* the mask of the plausible gene symbols of a series
SymbolMask(series) ==
    [i \in DOMAIN series |-> MatchesPattern(series[i]) /\ ContainsLetter(series[i])]

\* {v.upper() for v in series[mask] if v and v.upper() != "NAN"}
CandidateVals(series) ==
    LET mask == SymbolMask(series)
    IN {Upper(series[i]) : i \in {j \in DOMAIN series :
           /\ mask[j]
           /\ series[j] # <<>>
           /\ Upper(series[j]) # <<"N", "A", "N">>}}

\* the unified reference set: ref_genes |= {str(g).upper() for g in s}
RefGenes(reference_sets) ==
    UNION {{Upper(Str(g)) : g \in reference_sets[k]} : k \in DOMAIN reference_sets}

\* len(vals & ref_genes) for one column
Overlap(df, col, ref_genes) ==
    Cardinality(CandidateVals(StrippedSeries(df, col)) \cap ref_genes)

\* the loop with overlap >= best_score: the last of equal columns wins
RECURSIVE GuessLoopLastWins(_, _, _, _, _)
GuessLoopLastWins(df, ref_genes, i, best_col, best_score) ==
    IF i > Len(df.columns) THEN best_col
    ELSE LET col == df.columns[i]
             series == StrippedSeries(df, col)
             mask == SymbolMask(series)
             overlap == Overlap(df, col, ref_genes)
         IN IF series = <<>>
            THEN GuessLoopLastWins(df, ref_genes, i + 1, best_col, best_score)
            ELSE IF \A j \in DOMAIN series : ~mask[j]
            THEN GuessLoopLastWins(df, ref_genes, i + 1, best_col, best_score)
            ELSE IF overlap >= best_score
            THEN GuessLoopLastWins(df, ref_genes, i + 1, col, overlap)
            ELSE GuessLoopLastWins(df, ref_genes, i + 1, best_col, best_score)

\* the for loop of guess_gene_column from column number i on
RECURSIVE GuessLoop(_, _, _, _, _)
GuessLoop(df, ref_genes, i, best_col, best_score) ==
    IF i > Len(df.columns) THEN best_col
    ELSE LET col == df.columns[i]
             series == StrippedSeries(df, col)
             mask == SymbolMask(series)
             overlap == Overlap(df, col, ref_genes)
         IN IF series = <<>>
            THEN GuessLoop(df, ref_genes, i + 1, best_col, best_score)
            ELSE IF \A j \in DOMAIN series : ~mask[j]
            THEN GuessLoop(df, ref_genes, i + 1, best_col, best_score)
            ELSE IF overlap > best_score
            THEN GuessLoop(df, ref_genes, i + 1, col, overlap)
            ELSE GuessLoop(df, ref_genes, i + 1, best_col, best_score)

\* guess_gene_column(df, reference_sets)
guess_gene_column(df, reference_sets) ==
    GuessLoop(df, RefGenes(reference_sets), 1, None, -1)

-----------------------------------------------------------------------------
(* main(): the menu *)

menu == <<"File-based Gene Matcher", "Text Area Gene Matcher", "KEGG Gene List">>

\* a local variable of main() that no statement has assigned yet
Unbound == <<"unbound">>

NoReport == [kind |-> None, msg |-> None]

EmptyTable == [columns |-> <<>>, rows |-> <<>>]

\* the state before the script runs; the master files are what is on disk
InitWith(saids, immune) ==
    /\ pc = "menu"
    /\ choice = menu[1]
    /\ genes_list_1 = <<>>
    /\ genes_list_2 = <<>>
    /\ matching_genes = {}
    /\ report = NoReport
    /\ saids_file = saids
    /\ immune_file = immune
    /\ said_gene_to_disease = Unbound
    /\ said_gene_to_inheritance = Unbound
    /\ immune_gene_to_disease = Unbound
    /\ immune_gene_to_inheritance = Unbound
    /\ uploaded = <<>>
    /\ large_df = EmptyTable
    /\ gene_column = None
    /\ download = <<>>

\* the sidebar selectbox and the if / elif on choice
SelectChoice(c) ==
    /\ pc = "menu"
    /\ choice' = c
    /\ pc' = CASE c = "Text Area Gene Matcher" -> "text_area"
              [] c = "File-based Gene Matcher" -> "load_master"
              [] OTHER -> "kegg"
    /\ UNCHANGED <<textVars, report, fileVars, indexVars, tableVars>>

-----------------------------------------------------------------------------
(* main(): Text Area Gene Matcher *)

\* the two text areas as the user left them when the script runs
PasteLists(t1, t2) ==
    /\ pc = "text_area"
    /\ genes_list_1' = t1
    /\ genes_list_2' = t2
    /\ pc' = "find_button"
    /\ UNCHANGED <<choice, matching_genes, report, fileVars, indexVars, tableVars>>

\* the guard with or in place of and
EitherListPasted == genes_list_1 # <<>> \/ genes_list_2 # <<>>

\* if genes_list_1 and genes_list_2: both strings are non-empty
BothListsPasted == genes_list_1 # <<>> /\ genes_list_2 # <<>>

\* st.button('Find Matches') and the branches under it
FindMatches ==
    /\ pc = "find_button"
    /\ pc' = "done"
    /\ IF BothListsPasted
       THEN /\ matching_genes' = find_matching_genes(genes_list_1, genes_list_2)
            /\ report' =
                 IF matching_genes' # {}
                 THEN [kind |-> "success", msg |-> "Matching Genes",
                       genes |-> {Upper(g) : g \in matching_genes'}]
                 ELSE [kind |-> "warning", msg |-> "No matching genes found."]
       ELSE /\ report' = [kind |-> "error",
                          msg |-> "Please paste both lists of genes to find matches."]
            /\ UNCHANGED matching_genes
    /\ UNCHANGED <<choice, genes_list_1, genes_list_2, fileVars, indexVars, tableVars>>

-----------------------------------------------------------------------------
(* main(): File-based Gene Matcher, the master lists *)

saids_path == "SAIDs_2025.csv"
immune_genes_path == "Immune_genes_2025.csv"

NoException == [type |-> None, arg |-> None]

\* df['Gene'].astype(str).str.strip().str.upper(), one key per row
GeneUpper(rows) == [i \in 1..Len(rows) |-> Upper(Strip(Str(rows[i].Gene)))]

\* the values of column col in the rows of group key, in row order
RECURSIVE GroupValues(_, _, _)
GroupValues(rows, col, key) ==
    IF rows = <<>> THEN <<>>
    ELSE (IF Upper(Strip(Str(Head(rows).Gene))) = key
          THEN <<Head(rows)[col]>> ELSE <<>>) \o GroupValues(Tail(rows), col, key)

\* the lambda without sorted(set(...)): '; '.join(map(str, x))
JoinAsListed(x) == Join(<<";", " ">>, [i \in DOMAIN x |-> Str(x[i])])

\* lambda x: '; '.join(sorted(set(map(str, x))))
JoinSortedSet(x) == Join(<<";", " ">>, Sorted({Str(x[i]) : i \in DOMAIN x}))

\* df.groupby('Gene_upper')[col].apply(lambda ...).to_dict()
GroupByToDict(rows, col) ==
    [key \in Range(GeneUpper(rows)) |-> JoinSortedSet(GroupValues(rows, col, key))]

\* loading that swallows a failure and carries on with empty dictionaries
LoadSourceOrEmpty(file, path) ==
    IF ~file.readable \/ ~({"Gene", "Disease", "Inheritance"} \subseteq file.columns)
    THEN [e |-> NoException, disease |-> <<>>, inheritance |-> <<>>]
    ELSE [e |-> NoException,
          disease |-> GroupByToDict(file.rows, "Disease"),
          inheritance |-> GroupByToDict(file.rows, "Inheritance")]

\* the statements of the try block for one master list: the exception raised, if
\* any, and the two dictionaries as far as they were assigned
LoadSource(file, path) ==
    IF ~file.readable
    THEN [e |-> [type |-> "FileNotFoundError", arg |-> path],
          disease |-> Unbound, inheritance |-> Unbound]
    ELSE IF "Gene" \notin file.columns
    THEN [e |-> [type |-> "KeyError", arg |-> "Gene"],
          disease |-> Unbound, inheritance |-> Unbound]
    ELSE IF "Disease" \notin file.columns
    THEN [e |-> [type |-> "KeyError", arg |-> "Column not found: Disease"],
          disease |-> Unbound, inheritance |-> Unbound]
    ELSE IF "Inheritance" \notin file.columns
    THEN [e |-> [type |-> "KeyError", arg |-> "Column not found: Inheritance"],
          disease |-> GroupByToDict(file.rows, "Disease"), inheritance |-> Unbound]
    ELSE [e |-> NoException,
          disease |-> GroupByToDict(file.rows, "Disease"),
          inheritance |-> GroupByToDict(file.rows, "Inheritance")]

\* the try / except around both master lists
LoadMasterLists ==
    /\ pc = "load_master"
    /\ LET s == LoadSource(saids_file, saids_path)
           i == LoadSource(immune_file, immune_genes_path)
       IN IF s.e # NoException
          THEN /\ said_gene_to_disease' = s.disease
               /\ said_gene_to_inheritance' = s.inheritance
               /\ UNCHANGED <<immune_gene_to_disease, immune_gene_to_inheritance>>
               /\ report' = [kind |-> "error",
                             msg |-> "Failed to load master gene lists", e |-> s.e]
               /\ pc' = "done"
          ELSE /\ said_gene_to_disease' = s.disease
               /\ said_gene_to_inheritance' = s.inheritance
               /\ immune_gene_to_disease' = i.disease
               /\ immune_gene_to_inheritance' = i.inheritance
               /\ IF i.e # NoException
                  THEN /\ report' = [kind |-> "error",
                                     msg |-> "Failed to load master gene lists", e |-> i.e]
                       /\ pc' = "done"
                  ELSE /\ UNCHANGED report
                       /\ pc' = "upload"
    /\ UNCHANGED <<choice, textVars, fileVars, tableVars>>

-----------------------------------------------------------------------------
(* main(): File-based Gene Matcher, the uploaded file *)

\* st.file_uploader returned a file and pd.read_csv parsed it into table
ReadUploadedFile(table) ==
    /\ pc = "upload"
    /\ uploaded' = <<table>>
    /\ large_df' = table
    /\ pc' = "detect"
    /\ UNCHANGED <<choice, textVars, report, fileVars, indexVars, gene_column, download>>

\* st.file_uploader returned a file and pd.read_csv raised
ReadUploadedFileFails ==
    /\ pc = "upload"
    /\ report' = [kind |-> "error", msg |-> "Failed to read or process the uploaded file",
                  e |-> [type |-> "ParserError", arg |-> None]]
    /\ pc' = "done"
    /\ UNCHANGED <<choice, textVars, fileVars, indexVars, tableVars>>

\* large_file is None: nothing below the uploader runs
NoFileUploaded ==
    /\ pc = "upload"
    /\ pc' = "done"
    /\ UNCHANGED <<choice, textVars, report, fileVars, indexVars, tableVars>>

\* the chain with SYMBOL tried before ann.gene
FallbackColumnSwapped(df) ==
    IF "gene" \in Range(df.columns) THEN "gene"
    ELSE IF "SYMBOL" \in Range(df.columns) THEN "SYMBOL"
    ELSE IF "ann.gene" \in Range(df.columns) THEN "ann.gene"
    ELSE None

\* the if / elif chain over the well-known column names
FallbackColumn(df) ==
    IF "gene" \in Range(df.columns) THEN "gene"
    ELSE IF "ann.gene" \in Range(df.columns) THEN "ann.gene"
    ELSE IF "SYMBOL" \in Range(df.columns) THEN "SYMBOL"
    ELSE None

\* reference_sets = [said_gene_set, immune_gene_set]
ReferenceSets == <<DOMAIN said_gene_to_disease, DOMAIN immune_gene_to_disease>>

\* auto-detection, fallback, and the error when both leave gene_column None
DetectGeneColumn ==
    /\ pc = "detect"
    /\ LET guessed == guess_gene_column(large_df, ReferenceSets)
           col == IF guessed = None THEN FallbackColumn(large_df) ELSE guessed
       IN /\ gene_column' = col
          /\ IF col = None
             THEN /\ report' = [kind |-> "error",
                                msg |-> "Could not automatically detect a gene column.",
                                columns |-> large_df.columns]
                  /\ pc' = "done"
             ELSE /\ report' = [kind |-> "info", msg |-> "Using column", column |-> col]
                  /\ pc' = "annotate"
    /\ UNCHANGED <<choice, textVars, fileVars, indexVars, uploaded, large_df, download>>

\* dict.get(key, '')
Get(dict, key) == IF key \in DOMAIN dict THEN dict[key] ELSE <<>>

\* said_gene_symbol / immune_gene_symbol: the key if the dictionary has it, else ''
GeneSymbol(dict, x) ==
    IF normalize_key(x) \in DOMAIN dict THEN normalize_key(x) ELSE <<>>

\* df[name] = values: an existing column is replaced in place, a new one is appended
SetColumn(df, name, values) ==
    [columns |-> IF name \in Range(df.columns) THEN df.columns
                 ELSE Append(df.columns, name),
     rows |-> [i \in 1..Len(df.rows) |->
                 [c \in DOMAIN df.rows[i] \cup {name} |->
                     IF c = name THEN values[i] ELSE df.rows[i][c]]]]

\* large_df[gene_column] = large_df[gene_column].astype(str).str.strip()
NormalizeGeneColumn(df, col) == SetColumn(df, col, StrippedSeries(df, col))

\* large_df[name] = large_df[gene_column].apply(said_gene_symbol)
WithSymbolColumn(df, col, name, dict) ==
    SetColumn(df, name, [i \in 1..Len(df.rows) |-> GeneSymbol(dict, df.rows[i][col])])

\* large_df[name] = large_df[gene_column].apply(lambda x: dict.get(normalize_key(x), ''))
WithLookupColumn(df, col, name, dict) ==
    SetColumn(df, name,
              [i \in 1..Len(df.rows) |-> Get(dict, normalize_key(df.rows[i][col]))])

\* the six column assignments, in the order main() makes them
AnnotatedTable(df, col) ==
    LET d0 == NormalizeGeneColumn(df, col)
        d1 == WithSymbolColumn(d0, col, "SAID gene", said_gene_to_disease)
        d2 == WithLookupColumn(d1, col, "SAID disease", said_gene_to_disease)
        d3 == WithLookupColumn(d2, col, "SAID disease inheritance",
                               said_gene_to_inheritance)
        d4 == WithSymbolColumn(d3, col, "Immune gene", immune_gene_to_disease)
        d5 == WithLookupColumn(d4, col, "Immune disease", immune_gene_to_disease)
    IN WithLookupColumn(d5, col, "Immune disease inheritance",
                        immune_gene_to_inheritance)

\* normalisation, annotation, st.write and st.download_button
Annotate ==
    /\ pc = "annotate"
    /\ large_df' = AnnotatedTable(large_df, gene_column)
    /\ download' = <<large_df'>>
    /\ pc' = "done"
    /\ UNCHANGED <<choice, textVars, report, fileVars, indexVars, uploaded, gene_column>>


-----------------------------------------------------------------------------
(* Building the reference indexes: master lists of up to MaxRefRows rows *)

MaxRefRows == 3

RequiredColumns == {"Gene", "Disease", "Inheritance"}

\* a readable master list with the three required columns
RefFile(rows) == [readable |-> TRUE, columns |-> RequiredColumns, rows |-> rows]

\* gene cells: two spellings of one symbol, and a missing one
IndexGenes == {<<"A">>, <<" ", "a">>, NaN}

\* disease and inheritance cells of a row
IndexAttrs == {<<<<"d", "2">>, <<"A", "D">>>>, <<<<"D">>, <<"A", "R">>>>,
               <<NaN, <<"A", "D">>>>}

IndexRows ==
    {[Gene |-> g, Disease |-> a[1], Inheritance |-> a[2]] : g \in IndexGenes, a \in IndexAttrs}

\* the master list the index specification keeps fixed
SmallRows == <<[Gene |-> <<"D">>, Disease |-> <<"d">>, Inheritance |-> <<"A", "D">>]>>

InitIndex ==
    \E n \in 0..MaxRefRows : \E rows \in [1..n -> IndexRows] :
        \/ InitWith(RefFile(rows), RefFile(SmallRows))
        \/ InitWith(RefFile(SmallRows), RefFile(rows))

NextIndex ==
    \/ SelectChoice("File-based Gene Matcher")
    \/ LoadMasterLists

SpecIndex == InitIndex /\ [][NextIndex]_vars

\* rows rearranged by the permutation p of their positions
Permuted(rows, p) == [i \in 1..Len(rows) |-> rows[p[i]]]

\* the arrangements of a set of str in strictly increasing order (there is one)
Increasing(S) ==
    {q \in [1..Cardinality(S) -> S] :
        \A i \in 1..(Cardinality(S) - 1) : StrLess(q[i], q[i + 1])}

\* what the claim asks of one attribute dictionary built from rows
IndexIsAggregate(dict, rows, col) ==
    /\ DOMAIN dict = {normalize_key(rows[i].Gene) : i \in DOMAIN rows}
    /\ \A key \in DOMAIN dict :
          LET values == {Str(rows[i][col]) : i \in {j \in DOMAIN rows :
                                                   normalize_key(rows[j].Gene) = key}}
          IN /\ Cardinality(Increasing(values)) = 1
             /\ \A q \in Increasing(values) : dict[key] = Join(<<";", " ">>, q)
    /\ \A p \in Permutations(1..Len(rows)) :
          GroupByToDict(Permuted(rows, p), col) = dict

\* C2: once the master lists are loaded, each attribute string of each index is the
\* sorted, deduplicated, "; "-joined set of the attribute values of all rows whose
\* gene normalizes to the key, and every permutation of the rows builds the same index
C2_IndexAggregation ==
    pc = "upload" =>
        /\ IndexIsAggregate(said_gene_to_disease, saids_file.rows, "Disease")
        /\ IndexIsAggregate(said_gene_to_inheritance, saids_file.rows, "Inheritance")
        /\ IndexIsAggregate(immune_gene_to_disease, immune_file.rows, "Disease")
        /\ IndexIsAggregate(immune_gene_to_inheritance, immune_file.rows, "Inheritance")

\* C2 witness: two rows spell one gene differently, their diseases arrive in
\* descending order, and the index holds one entry joining both in ascending order
C2_Witness ==
    /\ pc = "upload"
    /\ Len(immune_file.rows) = 2
    /\ immune_file.rows[1].Gene = <<"A">>
    /\ immune_file.rows[2].Gene = <<" ", "a">>
    /\ immune_file.rows[1].Disease = <<"d", "2">>
    /\ immune_file.rows[2].Disease = <<"D">>
    /\ DOMAIN immune_gene_to_disease = {<<"A">>}
    /\ immune_gene_to_disease[<<"A">>] = <<"D", ";", " ", "d", "2">>
    /\ immune_gene_to_inheritance[<<"A">>] = <<"A", "D", ";", " ", "A", "R">>

-----------------------------------------------------------------------------
(* Uploaded tables of up to MaxRows rows *)

MaxRows == 2

\* the upload of a table with one of the given headers, up to MaxRows rows and
\* cells drawn from the given set
UploadOver(headers, cells) ==
    /\ pc = "upload"
    /\ \E h \in headers : \E n \in 0..MaxRows : \E r \in [1..n -> [Range(h) -> cells]] :
          ReadUploadedFile([columns |-> h, rows |-> r])

\* the File-based Gene Matcher run, but for the file that is uploaded
FileSteps ==
    \/ SelectChoice("File-based Gene Matcher")
    \/ LoadMasterLists
    \/ ReadUploadedFileFails
    \/ NoFileUploaded
    \/ DetectGeneColumn
    \/ Annotate

\* master list rows the specifications below draw from
RowA == [Gene |-> <<"A">>, Disease |-> <<"d">>, Inheritance |-> <<"A", "D">>]
RowLowerA == [Gene |-> <<"a", " ">>, Disease |-> <<"D">>, Inheritance |-> <<"A", "R">>]
RowD == [Gene |-> <<"D">>, Disease |-> <<"d", "2">>, Inheritance |-> <<"A", "R">>]
RowBlank == [Gene |-> <<" ">>, Disease |-> <<"d">>, Inheritance |-> <<"A", "R">>]
RowMissing == [Gene |-> NaN, Disease |-> <<"D">>, Inheritance |-> <<"A", "D">>]
RowNanText == [Gene |-> <<" ", "n", "a", "n">>, Disease |-> <<"D">>, Inheritance |-> <<"A", "D">>]

\* the run has gone past the try block of the master lists
PastLoad == pc \in {"upload", "detect", "annotate", "done"} /\ choice = menu[1]

\* the run has gone past the detection of the gene column
PastDetect ==
    /\ pc \in {"annotate", "done"}
    /\ uploaded # <<>>
    /\ report.msg \in {"Using column", "Could not automatically detect a gene column."}

-----------------------------------------------------------------------------
(* The whole app, with master lists that may be unreadable or lack a column *)

LoadFiles ==
    {[readable |-> FALSE, columns |-> {}, rows |-> <<>>]}
    \cup {[readable |-> TRUE, columns |-> cs, rows |-> rows] :
            cs \in {RequiredColumns, RequiredColumns \ {"Gene"},
                    RequiredColumns \ {"Disease"}, RequiredColumns \ {"Inheritance"}},
            rows \in {<<>>, <<RowA>>, <<RowD, RowLowerA>>}}

\* what the two text areas may hold in the specification of the whole app
FewTexts == {<<>>, <<"a">>, <<"A", " ", "d">>}

Init == \E saids, immune \in LoadFiles : InitWith(saids, immune)

\* one run of main(); the KEGG page is an external lookup and ends the run here
Next ==
    \/ \E c \in Range(menu) : SelectChoice(c)
    \/ \E t1, t2 \in FewTexts : PasteLists(t1, t2)
    \/ FindMatches
    \/ LoadMasterLists
    \/ UploadOver({<<"gene">>}, {<<"A">>, <<"d">>})
    \/ ReadUploadedFileFails
    \/ NoFileUploaded
    \/ DetectGeneColumn
    \/ Annotate

Spec == Init /\ [][Next]_vars

\* the master list cannot be loaded
LoadFails(file) == ~file.readable \/ ~(RequiredColumns \subseteq file.columns)

\* the exception that loading the master list raises
LoadFailure(file, path) ==
    IF ~file.readable THEN [type |-> "FileNotFoundError", arg |-> path]
    ELSE IF "Gene" \notin file.columns THEN [type |-> "KeyError", arg |-> "Gene"]
    ELSE IF "Disease" \notin file.columns
    THEN [type |-> "KeyError", arg |-> "Column not found: Disease"]
    ELSE [type |-> "KeyError", arg |-> "Column not found: Inheritance"]

\* C7 as stated: when one master list fails to load and the other is sound, the
\* sound one is still loaded into its index, the failure is reported, and the run
\* is not ended by it
C7_FailureIsLocal ==
    (PastLoad /\ LoadFails(saids_file) /\ ~LoadFails(immune_file)) =>
        /\ immune_gene_to_disease = GroupByToDict(immune_file.rows, "Disease")
        /\ immune_gene_to_inheritance = GroupByToDict(immune_file.rows, "Inheritance")

\* C7 amended: a load failure of either master list ends the whole run: it is
\* reported as one error carrying the exception of the first list that failed,
\* no file is read and nothing is annotated or offered for download; the run
\* reaches the uploader only with both indexes built from their files, so a failed
\* list is never replaced by an empty index
C7_FailureEndsRun ==
    PastLoad =>
        /\ (LoadFails(saids_file) \/ LoadFails(immune_file)) =>
              /\ pc = "done"
              /\ report = [kind |-> "error", msg |-> "Failed to load master gene lists",
                           e |-> IF LoadFails(saids_file)
                                 THEN LoadFailure(saids_file, saids_path)
                                 ELSE LoadFailure(immune_file, immune_genes_path)]
              /\ uploaded = <<>>
              /\ large_df = EmptyTable
              /\ download = <<>>
        /\ (uploaded # <<>> \/ pc # "done") =>
              /\ ~LoadFails(saids_file) /\ ~LoadFails(immune_file)
              /\ DOMAIN said_gene_to_disease =
                    {normalize_key(saids_file.rows[i].Gene) : i \in DOMAIN saids_file.rows}
              /\ DOMAIN immune_gene_to_disease =
                    {normalize_key(immune_file.rows[i].Gene) : i \in DOMAIN immune_file.rows}
              /\ DOMAIN said_gene_to_inheritance = DOMAIN said_gene_to_disease
              /\ DOMAIN immune_gene_to_inheritance = DOMAIN immune_gene_to_disease

\* C7 witness: SAIDs is sound and non-empty, the Immune list lacks a column, and
\* the run has ended with the load error
C7_Witness ==
    /\ pc = "done"
    /\ saids_file = RefFile(<<RowA>>)
    /\ immune_file.readable
    /\ "Inheritance" \notin immune_file.columns
    /\ report.kind = "error"
    /\ report.e = [type |-> "KeyError", arg |-> "Column not found: Inheritance"]
    /\ download = <<>>

-----------------------------------------------------------------------------
(* Detecting the gene column *)

\* cells: two reference genes, a symbol no list has, a number, the text " nan"
\* (which read_csv keeps as text), and a missing cell
DetectCells == {<<"A">>, <<"d", " ">>, <<"R">>, <<"1">>, <<" ", "n", "a", "n">>, NaN}

\* cells without the shape of a gene symbol
ShapelessCells == {<<"1">>, <<"?", " ">>}

\* headers of the tables whose cells are all shapeless: detection finds nothing
ShapelessHeaders ==
    {<<"y">>, <<"gene">>, <<"x", "y">>, <<"y", "SYMBOL">>, <<"SYMBOL", "ann.gene">>,
     <<"ann.gene", "gene">>, <<"SYMBOL", "gene">>, <<"SYMBOL", "gene", "ann.gene">>}

NextDetect ==
    \/ FileSteps
    \/ UploadOver({<<"x">>, <<"x", "gene">>}, DetectCells)
    \/ UploadOver({<<"x", "y", "gene">>}, {<<"A">>, <<"R">>})
    \/ UploadOver(ShapelessHeaders, ShapelessCells)

\* SAIDs lists gene A, with or without a gene written " nan"; Immune lists D
InitDetect ==
    \E rows \in {<<RowA>>, <<RowA, RowNanText>>} :
        InitWith(RefFile(rows), RefFile(<<RowD>>))

SpecDetect == InitDetect /\ [][NextDetect]_vars

\* the table as uploaded
Upload == uploaded[1]

\* the union of the reference vocabularies
Vocabulary == DOMAIN said_gene_to_disease \cup DOMAIN immune_gene_to_disease

\* the non-missing cells of a column that have the shape of a gene symbol
ShapedCells(df, col) ==
    {df.rows[i][col] : i \in {j \in DOMAIN df.rows :
        /\ df.rows[j][col] # NaN
        /\ MatchesPattern(Strip(df.rows[j][col]))
        /\ ContainsLetter(Strip(df.rows[j][col]))}}

\* the overlap score as C5 words it: the distinct normalized shaped values that
\* the vocabulary holds
StatedScore(df, col) ==
    Cardinality({normalize_key(c) : c \in ShapedCells(df, col)} \cap Vocabulary)

\* the overlap score without the values that normalize to NAN
ScoreSansNAN(df, col) ==
    Cardinality(({normalize_key(c) : c \in ShapedCells(df, col)} \ {<<"N", "A", "N">>})
                \cap Vocabulary)

\* position of a column in the header
ColumnIndex(df, col) == CHOOSE i \in DOMAIN df.columns : df.columns[i] = col

\* C4 as stated: when no column of the table has an overlap score above 0,
\* guess_gene_column returns None (and the run goes to the fallback names)
C4_NoneWithoutOverlap ==
    (PastDetect /\ \A c \in Range(Upload.columns) : ScoreSansNAN(Upload, c) = 0) =>
        /\ guess_gene_column(Upload, ReferenceSets) = None
        /\ gene_column = FallbackColumn(Upload)

\* C5 as stated: the column returned has the greatest overlap score, counted over
\* all distinct normalized shaped values, and is the first of the columns that
\* share a greatest non-zero score
C5_FirstOfStatedMaximum ==
    PastDetect =>
        LET g == guess_gene_column(Upload, ReferenceSets)
        IN g # None =>
            LET score == [c \in Range(Upload.columns) |-> StatedScore(Upload, c)]
            IN /\ \A c \in Range(Upload.columns) : score[c] <= score[g]
               /\ score[g] > 0 =>
                     \A c \in Range(Upload.columns) :
                         score[c] = score[g] => ColumnIndex(Upload, g) <= ColumnIndex(Upload, c)

\* C5 amended: the overlap score counts the distinct normalized shaped values other
\* than NAN that the vocabulary holds; the column returned has the greatest such
\* score and is the first of the columns that share a greatest non-zero score; the
\* run uses the column returned
C5_FirstOfMaximum ==
    PastDetect =>
        LET g == guess_gene_column(Upload, ReferenceSets)
        IN g # None =>
            LET score == [c \in Range(Upload.columns) |-> ScoreSansNAN(Upload, c)]
            IN /\ g \in Range(Upload.columns)
               /\ gene_column = g
               /\ \A c \in Range(Upload.columns) : score[c] <= score[g]
               /\ score[g] > 0 =>
                     \A c \in Range(Upload.columns) :
                         score[c] = score[g] => ColumnIndex(Upload, g) <= ColumnIndex(Upload, c)

\* C5 witness: both columns hold the same two reference genes, in different
\* spelling and order, and the first column is the one in use
C5_Witness ==
    /\ PastDetect
    /\ Upload.columns = <<"x", "gene">>
    /\ Len(Upload.rows) = 2
    /\ Upload.rows[1]["x"] = <<"d", " ">>
    /\ Upload.rows[2]["x"] = <<"A">>
    /\ Upload.rows[1]["gene"] = <<"A">>
    /\ Upload.rows[2]["gene"] = <<"d", " ">>
    /\ gene_column = "x"

\* the fallback names in their order of priority
FallbackNames == <<"gene", "ann.gene", "SYMBOL">>

\* C6: when guess_gene_column returns None the gene column is the first of gene,
\* ann.gene, SYMBOL that the table has; when it has none, the run ends with the
\* error that lists the table's columns, the table is left as uploaded and nothing
\* is offered for download
C6_Fallback ==
    (PastDetect /\ guess_gene_column(Upload, ReferenceSets) = None) =>
        LET present == {k \in DOMAIN FallbackNames : FallbackNames[k] \in Range(Upload.columns)}
        IN /\ present # {} =>
                 /\ \E k \in present : /\ gene_column = FallbackNames[k]
                                        /\ \A j \in present : k <= j
                 /\ report = [kind |-> "info", msg |-> "Using column", column |-> gene_column]
           /\ present = {} =>
                 /\ gene_column = None
                 /\ pc = "done"
                 /\ report = [kind |-> "error",
                              msg |-> "Could not automatically detect a gene column.",
                              columns |-> Upload.columns]
                 /\ large_df = Upload
                 /\ download = <<>>

\* C6 witness: detection found nothing, the table has SYMBOL before ann.gene and no
\* gene column, and the run annotated by ann.gene
C6_Witness ==
    /\ PastDetect
    /\ pc = "done"
    /\ Upload.columns = <<"SYMBOL", "ann.gene">>
    /\ Len(Upload.rows) = 1
    /\ guess_gene_column(Upload, ReferenceSets) = None
    /\ gene_column = "ann.gene"
    /\ download # <<>>

\* C10 as stated: a column without a non-missing value is never returned, and a
\* table none of whose columns holds a value of the shape of a gene symbol yields
\* None
C10_MissingColumnsSkipped ==
    PastDetect =>
        LET g == guess_gene_column(Upload, ReferenceSets)
        IN /\ \A c \in Range(Upload.columns) :
                 (\A i \in DOMAIN Upload.rows : Upload.rows[i][c] = NaN) => g # c
           /\ (\A c \in Range(Upload.columns) : ShapedCells(Upload, c) = {}) => g = None

-----------------------------------------------------------------------------
(* The annotation join *)

\* gene cells: a gene of both lists, a gene of Immune only, whitespace, missing
AnnotateCells == {<<"a", " ">>, <<"D">>, <<" ">>, NaN}

\* headers: plain ones, and ones of a file that was annotated before
AnnotateHeaders == {<<"gene">>, <<"x", "gene">>, <<"SAID gene">>, <<"SAID gene", "x">>}

NextAnnotate ==
    \/ FileSteps
    \/ UploadOver(AnnotateHeaders, AnnotateCells)

\* SAIDs lists A, alone or with a row whose gene is blank or missing; Immune lists
\* D and, in another spelling and with other attributes, A
InitAnnotate ==
    \E srows \in {<<RowA>>, <<RowA, RowBlank>>, <<RowA, RowMissing>>} :
        InitWith(RefFile(srows), RefFile(<<RowD, RowLowerA>>))

SpecAnnotate == InitAnnotate /\ [][NextAnnotate]_vars

\* the run has annotated the upload and offers the result
Annotated == pc = "done" /\ uploaded # <<>> /\ download # <<>>

\* the columns main() writes for one reference index
AnnotationNames ==
    {"SAID gene", "SAID disease", "SAID disease inheritance",
     "Immune gene", "Immune disease", "Immune disease inheritance"}

\* what the join must write into a row for one index, given the row's gene cell
RowIsJoined(row, cell, gname, dname, iname, disease, inheritance) ==
    LET key == normalize_key(cell)
    IN /\ row[gname] = IF key \in DOMAIN disease THEN key ELSE <<>>
       /\ row[dname] = IF key \in DOMAIN disease THEN disease[key] ELSE <<>>
       /\ row[iname] = IF key \in DOMAIN inheritance THEN inheritance[key] ELSE <<>>

\* every row of the result is the upload's row of the same position, joined to both
\* indexes by its own gene cell
TableIsJoined ==
    LET out == download[1]
    IN /\ Len(out.rows) = Len(Upload.rows)
       /\ \A i \in DOMAIN Upload.rows :
             /\ RowIsJoined(out.rows[i], Upload.rows[i][gene_column],
                            "SAID gene", "SAID disease", "SAID disease inheritance",
                            said_gene_to_disease, said_gene_to_inheritance)
             /\ RowIsJoined(out.rows[i], Upload.rows[i][gene_column],
                            "Immune gene", "Immune disease", "Immune disease inheritance",
                            immune_gene_to_disease, immune_gene_to_inheritance)
             /\ \A c \in Range(Upload.columns) \ AnnotationNames :
                   Strip(Str(out.rows[i][c])) = Strip(Str(Upload.rows[i][c]))

\* C1 as stated: in the annotated table every row holds, for each index, the
\* normalized gene of that row if the index has it and the index's strings for it,
\* else empty strings; rows keep their positions
C1_AnnotationJoin == Annotated => TableIsJoined

\* C1 restricted to uploads whose gene column is not named like a column that the
\* annotation writes
C1_JoinUnlessNameClash == (Annotated /\ gene_column \notin AnnotationNames) => TableIsJoined

\* C3 as stated: a row whose gene cell is missing or whitespace only gets the
\* empty string in all six annotation columns, whatever the master lists hold
C3_EmptyKeyNeverMatches ==
    Annotated =>
        \A i \in DOMAIN Upload.rows :
            (Upload.rows[i][gene_column] = NaN \/ Strip(Upload.rows[i][gene_column]) = <<>>) =>
                \A c \in AnnotationNames : download[1].rows[i][c] = <<>>

-----------------------------------------------------------------------------
(* The text-area matcher: pasted texts of up to MaxTextLen characters *)

\* bounds of the pasted texts
MaxTextLen == 3
TextChars == {"a", "A", "d", " "}

NoFile == [readable |-> FALSE, columns |-> {}, rows |-> <<>>]

InitText == InitWith(NoFile, NoFile)

NextText ==
    \/ SelectChoice("Text Area Gene Matcher")
    \/ /\ pc = "text_area"
       /\ \E n1, n2 \in 0..MaxTextLen :
            \E t1 \in [1..n1 -> TextChars], t2 \in [1..n2 -> TextChars] : PasteLists(t1, t2)
    \/ FindMatches

SpecText == InitText /\ [][NextText]_vars

\* the whitespace-separated tokens of a text: its maximal runs of non-whitespace
Tokens(s) ==
    {SubSeq(s, i, j) : <<i, j>> \in {ij \in (1..Len(s)) \X (1..Len(s)) :
        /\ ij[1] <= ij[2]
        /\ \A k \in ij[1]..ij[2] : s[k] \notin Spaces
        /\ (ij[1] = 1 \/ s[ij[1] - 1] \in Spaces)
        /\ (ij[2] = Len(s) \/ s[ij[2] + 1] \in Spaces)}}

\* the tokens that occur in both texts when case is ignored, lowercased
CommonTokens(s, t) ==
    {Lower(x) : x \in {y \in Tokens(s) : \E z \in Tokens(t) : Lower(y) = Lower(z)}}

\* C8: find_matching_genes returns exactly the lowercased tokens that occur, case
\* ignored, in both texts; nothing when a text is empty or whitespace only; and the
\* same set with its arguments exchanged.  Find Matches stores that set
C8_FindMatchingGenes ==
    pc \in {"find_button", "done"} =>
        LET r == find_matching_genes(genes_list_1, genes_list_2)
        IN /\ r = CommonTokens(genes_list_1, genes_list_2)
           /\ (Strip(genes_list_1) = <<>> \/ Strip(genes_list_2) = <<>>) => r = {}
           /\ r = find_matching_genes(genes_list_2, genes_list_1)
           /\ (pc = "done" /\ report.kind # "error") => matching_genes = r

\* C8 witness: a match found although the two texts spell the token in different case,
\* next to a token that only one text has
C8_Witness ==
    /\ pc = "done"
    /\ genes_list_1 = <<"A", " ", "d">>
    /\ genes_list_2 = <<"a">>
    /\ matching_genes = {<<"a">>}

\* the three outcomes of Find Matches
InputsMissing ==
    report = [kind |-> "error", msg |-> "Please paste both lists of genes to find matches."]
NoMatches == report = [kind |-> "warning", msg |-> "No matching genes found."]
Matches == report.kind = "success"

\* C9: after Find Matches exactly one of the three outcomes is reported: inputs
\* missing whenever a text is empty, no matches only when both texts were given and
\* share no token, matches only when they share one
C9_Outcomes ==
    pc = "done" =>
        /\ (InputsMissing /\ ~NoMatches /\ ~Matches)
             \/ (~InputsMissing /\ NoMatches /\ ~Matches)
             \/ (~InputsMissing /\ ~NoMatches /\ Matches)
        /\ (genes_list_1 = <<>> \/ genes_list_2 = <<>>) => InputsMissing
        /\ NoMatches => /\ genes_list_1 # <<>>
                        /\ genes_list_2 # <<>>
                        /\ CommonTokens(genes_list_1, genes_list_2) = {}
        /\ Matches => /\ CommonTokens(genes_list_1, genes_list_2) # {}
                      /\ report.genes = {Upper(g) : g \in CommonTokens(genes_list_1, genes_list_2)}

\* C9 witness: one text given, the other left empty, and inputs missing is reported
C9_Witness ==
    /\ pc = "done"
    /\ genes_list_1 = <<"a">>
    /\ genes_list_2 = <<>>
    /\ InputsMissing

=============================================================================
